---- MODULE Spec2Model ----
(***************************************************************************)
(* Model of dataload/manta_reader.py: decoding of 32-bit manta words into  *)
(* per-channel timestamps (rollover corrected) and FIFO-full flags.         *)
(*                                                                          *)
(* A uint32 word is the pair <<hi, lo>> of its 16-bit halves (its value is  *)
(* hi * 65536 + lo), so that every word value is representable.            *)
(***************************************************************************)
EXTENDS Integers, Sequences, FiniteSets

VARIABLES
    file,               \* the words of the file after its header lines
    i_start,            \* argument `i_start` of the loader
    i_stop,             \* argument `i_stop`: <<>> for None, <<n>> for n
    data,               \* buffer of uint32 words read from the file
    timestamps,         \* argument `timestamps` of process_timestamps
    det,                \* argument `det` of process_timestamps
    nbits,              \* argument `nbits`
    delta_rollover,     \* argument `delta_rollover`
    fifo_flag,          \* argument `fifo_flag`
    debug,              \* argument `debug`
    pc,                 \* "load", "start", "decoded", "done" (returned),
                        \* "raised"
    zero_data,          \* local: mask det == 0
    det_nz,             \* local det after the zero filter (line 137)
    timestamps_nz,      \* local timestamps after the zero filter (line 138)
    full_big_fifo,      \* local full_big_fifo (line 141)
    full_small_fifo,    \* local full_small_fifo (line 142)
    det_ch,             \* local det when the channel loop starts (line 143)
    times32,            \* local times32 of each loop iteration, by CH
    timestamps_m,       \* returned list of timestamps arrays
    full_big_fifo_m,    \* returned list of big-FIFO flag arrays
    full_small_fifo_m,  \* returned list of small-FIFO flag arrays
    store_CH,           \* loop variable CH of process_store
    timestamps_list,    \* store group 'timestamps_list': arrays appended
    big_fifo_full_list, \* store group 'big_fifo_full_list'
    small_fifo_full_list, \* store group 'small_fifo_full_list'
    flushed,            \* the store file holds everything appended so far
    worker_ch,          \* per worker, the channel it unwraps next
    merged              \* per channel, the array its worker has written

vars == <<file, i_start, i_stop, data, timestamps, det, nbits, delta_rollover, fifo_flag, debug, pc,
          zero_data, det_nz, timestamps_nz, full_big_fifo, full_small_fifo,
          det_ch, times32, timestamps_m, full_big_fifo_m, full_small_fifo_m,
          store_CH, timestamps_list, big_fifo_full_list, small_fifo_full_list,
          flushed, worker_ch, merged>>

workerVars == <<worker_ch, merged>>

(***************************************************************************)
(* Bounds of the explored inputs.                                           *)
(***************************************************************************)
MaxLen == 4

\* Longest buffer of the decoder's own specification.
MaxWords == 2

\* Largest i_start and i_stop of the loader's specification.
MaxIndex == 5

\* Longest array of the store's specification.
MaxStoreLen == 3

\* Longest array and number of workers of the workers' specification.
MaxWorkerLen == 4

NWorkers == 2

\* Largest number of counter periods a true timeline spans.
MaxTurns == 3

\* dt.itemsize of dtype '>u4'.
ItemSize == 4

\* Number of channels plus one: the loop is `for CH in range(1, 49)` and the
\* debug check is `det < 49`.
NCH1 == 49

\* Mutant of Channels: the loop stops one channel early.
Channels_To47 == 1..(NCH1 - 2)

\* range(1, 49)
Channels == 1..(NCH1 - 1)

(***************************************************************************)
(* numpy helpers                                                            *)
(***************************************************************************)
RECURSIVE BitwiseAnd(_, _)
\* np.bitwise_and on two non-negative integers, bit by bit.
BitwiseAnd(a, b) ==
    IF a = 0 \/ b = 0 THEN 0
    ELSE (a % 2) * (b % 2) + 2 * BitwiseAnd(a \div 2, b \div 2)

\* np.right_shift on a non-negative integer.
RightShift(a, n) == a \div (2 ^ n)

\* np.right_shift(data, nbits) on one uint32 word <<hi, lo>>.
WordRightShift(w, n) ==
    IF n >= 16 THEN RightShift(w[1], n - 16)
    ELSE w[1] * (2 ^ (16 - n)) + RightShift(w[2], n)

\* np.bitwise_and(data, m) on one uint32 word <<hi, lo>>, m < 2^31.
WordBitwiseAnd(w, m) ==
    BitwiseAnd(w[1], m \div 65536) * 65536 + BitwiseAnd(w[2], m % 65536)

RECURSIVE MaskSelect_Reversed(_, _)
\* Mutant of MaskSelect: the selected elements come out in reverse order.
MaskSelect_Reversed(a, mask) ==
    IF a = <<>> THEN <<>>
    ELSE MaskSelect_Reversed(Tail(a), Tail(mask))
         \o (IF Head(mask) THEN <<Head(a)>> ELSE <<>>)

RECURSIVE MaskSelect(_, _)
\* Boolean-mask indexing a[mask]: the elements of a where mask is True, in order.
MaskSelect(a, mask) ==
    IF a = <<>> THEN <<>>
    ELSE (IF Head(mask) THEN <<Head(a)>> ELSE <<>>)
         \o MaskSelect(Tail(a), Tail(mask))

\* -mask on a boolean array: element-wise logical not, as in the numpy
\* releases the module was written for (Python 2).
MaskNot(mask) == [k \in DOMAIN mask |-> ~mask[k]]

\* Mutant of AsInt32: the intermediate type is 16 bits wide.
AsInt32_Int16(x) == ((x + 32768) % 65536) - 32768

\* .astype('int32') on one uint32 element: values above 2^31 - 1 wrap to
\* negative ones (2^32 is written as a sum that stays within 32 bits).
AsInt32(x) == IF x > 2147483647 THEN ((x - 2147483647) - 2147483647) - 2 ELSE x

\* np.diff; on non-negative int32 elements the differences fit int32.
Diff(a) == [i \in 1..(Len(a) - 1) |-> a[i + 1] - a[i]]

\* Mutant of CumSum: the flags are not accumulated.
CumSum_NoAccumulate(a) == a

RECURSIVE CumSum(_)
\* np.cumsum
CumSum(a) ==
    IF a = <<>> THEN <<>>
    ELSE LET front == CumSum(SubSeq(a, 1, Len(a) - 1))
         IN  Append(front, (IF front = <<>> THEN 0 ELSE front[Len(front)])
                           + a[Len(a)])

(***************************************************************************)
(* load_xavier_manta_data                                                   *)
(***************************************************************************)
\* len(f.read(size)) for a file of `total` bytes positioned at byte `pos`: a
\* negative size reads to the end of the file, a position at or past the end
\* reads nothing.
FileRead(total, pos, size) ==
    LET avail == IF pos >= total THEN 0 ELSE total - pos
    IN  IF size < 0 \/ size > avail THEN avail ELSE size

\* The whole function on the words f that follow the header lines: seek to
\* byte itemsize*i_start, read itemsize*i_stop bytes (-1 for None) and view
\* the bytes read as len(buff)/itemsize words.  The debug assertion compares
\* f.tell() with the position just sought and never fails.
load_xavier_manta_data(f, istart, istop) ==
    LET pos  == ItemSize * istart
        stop == IF istop = <<>> THEN -1 ELSE istop[1]
        buff == FileRead(ItemSize * Len(f), pos, ItemSize * stop)
        n    == buff \div ItemSize
    IN  SubSeq(f, istart + 1, istart + n)

(***************************************************************************)
(* get_timestamps_detectors                                                 *)
(***************************************************************************)
\* Mutant of DetOfWord: the offset is left out.
DetOfWord_NoOffset(w, nb) == WordRightShift(w, nb)

\* Mutant of DetOfWord: the detector is kept in 8 bits, as the docstring says.
DetOfWord_Uint8(w, nb) == (WordRightShift(w, nb) + 1) % 256

\* det = np.right_shift(data, nbits) + 1, one element (uint32)
DetOfWord(w, nb) == WordRightShift(w, nb) + 1

\* Mutant of TimestampOfWord: the mask is one bit short.
TimestampOfWord_NarrowMask(w, nb) == WordBitwiseAnd(w, 2 ^ (nb - 1) - 1)

\* timestamps = np.bitwise_and(data, 2**nbits - 1), one element
TimestampOfWord(w, nb) == WordBitwiseAnd(w, 2 ^ nb - 1)

get_timestamps_detectors(d, nb) ==
    [det        |-> [k \in DOMAIN d |-> DetOfWord(d[k], nb)],
     timestamps |-> [k \in DOMAIN d |-> TimestampOfWord(d[k], nb)]]

(***************************************************************************)
(* process_timestamps                                                       *)
(***************************************************************************)
\* zero_data = (det == 0)
ZeroData(d) == [k \in DOMAIN d |-> d[k] = 0]

\* Mutant of BigFifoBit: the shift of the small-FIFO flag.
BigFifoBit_Shift6(d) == BitwiseAnd(1, RightShift(d, 6)) # 0

\* np.bitwise_and(1, np.right_shift(det, 7)).astype(bool), one element
BigFifoBit(d) == BitwiseAnd(1, RightShift(d, 7)) # 0

\* Mutant of SmallFifoBit: shift by 5.
SmallFifoBit_Shift5(d) == BitwiseAnd(1, RightShift(d, 5)) # 0

\* np.bitwise_and(1, np.right_shift(det, 6)).astype(bool), one element
SmallFifoBit(d) == BitwiseAnd(1, RightShift(d, 6)) # 0

\* Mutant of ChannelOf: the mask is 0x7F.
ChannelOf_SevenBits(d) == BitwiseAnd(d, 127)

\* np.bitwise_and(det, 0x3F), one element
ChannelOf(d) == BitwiseAnd(d, 63)

\* Mutant of DebugCheck: the bound is included.
DebugCheck_Inclusive(d) == d <= NCH1

\* Mutant of DebugCheck: the check is skipped.
DebugCheck_Skipped(d) == TRUE

\* the debug-mode check on one element of det
DebugCheck(d) == d < NCH1

\* Mutant of ChannelMask: every id of at least CH is selected.
ChannelMask_AtLeast(d, CH) == [k \in DOMAIN d |-> d[k] >= CH]

\* Mutant of ChannelMask: ids above the last channel fall into it.
ChannelMask_Clamped(d, CH) ==
    [k \in DOMAIN d |-> d[k] = CH \/ (CH = NCH1 - 1 /\ d[k] > CH)]

\* mask = (det == CH)
ChannelMask(d, CH) == [k \in DOMAIN d |-> d[k] = CH]

\* Mutant of RolloverFlag: the threshold is off by one.
RolloverFlag_OffByOne(dif, delta) == IF dif < -(delta + 1) THEN 1 ELSE 0

\* Mutant of RolloverFlag: a decrease of exactly delta counts.
RolloverFlag_Inclusive(dif, delta) == IF dif <= -delta THEN 1 ELSE 0

\* Mutant of RolloverFlag: every decrease counts.
RolloverFlag_AnyDecrease(dif, delta) == IF dif < 0 THEN 1 ELSE 0

\* Mutant of RolloverFlag: the comparison has the wrong sign.
RolloverFlag_WrongSign(dif, delta) == IF dif > delta THEN 1 ELSE 0

\* (diff(times32) < -delta_rollover).astype('int64'), one element
RolloverFlag(dif, delta) == IF dif < -delta THEN 1 ELSE 0

\* Mutant of EnoughData: two events are enough.
EnoughData_Two(t32) == Len(t32) >= 2

\* Mutant of EnoughData: the test is on a non-empty array.
EnoughData_NonEmpty(t32) == Len(t32) >= 1

\* the size test of the channel loop
EnoughData(t32) == Len(t32) >= 3

\* Mutant of Unwrap: the result is aligned to times32[:-1].
Unwrap_FromFirst(t32, delta, max_ts) ==
    IF Len(t32) >= 3
    THEN LET dif  == Diff(t32)
             cums == CumSum([i \in DOMAIN dif |-> IF dif[i] < -delta THEN 1 ELSE 0])
         IN  [i \in DOMAIN cums |-> cums[i] * max_ts + t32[i]]
    ELSE <<>>

\* Mutant of Unwrap: the period is the counter mask 2^nbits - 1.
Unwrap_PeriodIsMask(t32, delta, max_ts) ==
    IF Len(t32) >= 3
    THEN LET dif  == Diff(t32)
             cums == CumSum([i \in DOMAIN dif |-> IF dif[i] < -delta THEN 1 ELSE 0])
         IN  [i \in DOMAIN cums |-> cums[i] * (max_ts - 1) + t32[i + 1]]
    ELSE <<>>

\* The body of the channel loop after the mask: times32 -> times64.
Unwrap(t32, delta, max_ts) ==
    IF EnoughData(t32)
    THEN LET dif    == Diff(t32)
             flags  == [i \in DOMAIN dif |-> RolloverFlag(dif[i], delta)]
             cums   == CumSum(flags)
             scaled == [i \in DOMAIN cums |-> cums[i] * max_ts]
         IN  [i \in DOMAIN scaled |-> scaled[i] + t32[i + 1]]
    ELSE <<>>

\* Mutant of UnwrapChannel: the rollovers are counted on the whole stream and
\* the channel is selected afterwards.
UnwrapChannel_WholeStream(c, tnz, dch, delta, max_ts) ==
    LET t32  == [k \in DOMAIN tnz |-> AsInt32(tnz[k])]
        dif  == Diff(t32)
        cs   == CumSum([i \in DOMAIN dif |-> RolloverFlag(dif[i], delta)])
        full == [i \in DOMAIN t32 |->
                    (IF i = 1 THEN 0 ELSE cs[i - 1]) * max_ts + t32[i]]
        sel  == MaskSelect(full, ChannelMask(dch, c))
    IN  IF Len(sel) >= 3 THEN Tail(sel) ELSE <<>>

\* The body of the channel loop for channel c: the bucket of the channel and
\* its unwrapped timestamps.
UnwrapChannel(c, tnz, dch, delta, max_ts) ==
    LET sel == MaskSelect(tnz, ChannelMask(dch, c))
    IN  Unwrap([k \in DOMAIN sel |-> AsInt32(sel[k])], delta, max_ts)

\* Mutant of ChannelIds: the ids are masked in both modes.
ChannelIds_AlwaysMasked(dnz, flag) == [k \in DOMAIN dnz |-> ChannelOf(dnz[k])]

\* The channel ids the channel loop compares: masked to 6 bits when fifo_flag
\* is set, the detector values themselves otherwise.
ChannelIds(dnz, flag) ==
    IF flag THEN [k \in DOMAIN dnz |-> ChannelOf(dnz[k])] ELSE dnz

\* The whole function: every local and the returned lists.
process_timestamps(ts, d, delta, nb, flag, dbg) ==
    LET max_ts == 2 ^ nb
        zd     == ZeroData(d)
        dnz    == MaskSelect(d, MaskNot(zd))
        tnz    == MaskSelect(ts, MaskNot(zd))
        big    == IF flag THEN [k \in DOMAIN dnz |-> BigFifoBit(dnz[k])] ELSE <<>>
        small  == IF flag THEN [k \in DOMAIN dnz |-> SmallFifoBit(dnz[k])] ELSE <<>>
        dch    == ChannelIds(dnz, flag)
        ok     == dbg => \A k \in DOMAIN dch : DebugCheck(dch[k])
        t32    == [CH \in Channels |->
                      LET sel == MaskSelect(tnz, ChannelMask(dch, CH))
                      IN  [k \in DOMAIN sel |-> AsInt32(sel[k])]]
    IN  [raised            |-> ~ok,
         zero_data         |-> zd,
         det_nz            |-> dnz,
         timestamps_nz     |-> tnz,
         full_big_fifo     |-> big,
         full_small_fifo   |-> small,
         det_ch            |-> dch,
         times32           |-> IF ok THEN t32 ELSE <<>>,
         timestamps_m      |-> IF ok
                               THEN [CH \in Channels |-> Unwrap(t32[CH], delta, max_ts)]
                               ELSE <<>>,
         full_big_fifo_m   |-> IF ok /\ flag
                               THEN [CH \in Channels |->
                                        MaskSelect(big, ChannelMask(dch, CH))]
                               ELSE <<>>,
         full_small_fifo_m |-> IF ok /\ flag
                               THEN [CH \in Channels |->
                                        MaskSelect(small, ChannelMask(dch, CH))]
                               ELSE <<>>]

(***************************************************************************)
(* process_store                                                            *)
(***************************************************************************)
\* PyTablesList(out_fname, overwrite=True, ...) and the two groups created
\* under it in the file just truncated: a group without entries.
PyTablesListNew == <<>>

\* PyTablesList.append: the array becomes the last entry of the group; the
\* entries already in the group are kept as they are.
PyTablesListAppend(group, arr) == Append(group, arr)

\* The statements of process_store before the store is opened: the zero
\* filter, the flag extraction and the debug assertion.
store_prelude(ts, d, flag, dbg) ==
    LET zd    == [k \in DOMAIN d |-> d[k] = 0]
        dnz   == MaskSelect(d, MaskNot(zd))
        tnz   == MaskSelect(ts, MaskNot(zd))
        big   == IF flag
                 THEN [k \in DOMAIN dnz |->
                          BitwiseAnd(1, RightShift(dnz[k], 7)) # 0]
                 ELSE <<>>
        small == IF flag
                 THEN [k \in DOMAIN dnz |->
                          BitwiseAnd(1, RightShift(dnz[k], 6)) # 0]
                 ELSE <<>>
        dch   == IF flag
                 THEN [k \in DOMAIN dnz |-> BitwiseAnd(dnz[k], 63)]
                 ELSE dnz
    IN  [raised          |-> dbg /\ \E k \in DOMAIN dch : ~(dch[k] < 49),
         zero_data       |-> zd,
         det_nz          |-> dnz,
         timestamps_nz   |-> tnz,
         full_big_fifo   |-> big,
         full_small_fifo |-> small,
         det_ch          |-> dch]

\* Mutant of StoreChannels: the loop stops one channel early.
StoreChannels_To47 == 1..(NCH1 - 2)

\* range(1, 49) of process_store.
StoreChannels == 1..(NCH1 - 1)

\* Mutant of store_iteration: every decrease counts as a rollover.
store_iteration_NoTolerance(ch, tnz, dch, big, small, delta, nb, flag) ==
    LET max_ts == 2 ^ nb
        mask   == [k \in DOMAIN dch |-> dch[k] = ch]
        sel    == MaskSelect(tnz, mask)
        t32    == [k \in DOMAIN sel |-> AsInt32(sel[k])]
        dif    == Diff(t32)
        t64    == CumSum([i \in DOMAIN dif |-> IF dif[i] < 0 THEN 1 ELSE 0])
    IN  [big_fifo_i   |-> IF flag THEN MaskSelect(big, mask) ELSE <<>>,
         small_fifo_i |-> IF flag THEN MaskSelect(small, mask) ELSE <<>>,
         times64      |-> IF Len(t32) >= 3
                          THEN [i \in DOMAIN t64 |-> t64[i] * max_ts + t32[i + 1]]
                          ELSE <<>>]

\* One iteration of the channel loop of process_store: the arrays it appends
\* to the three groups (the flag arrays only when fifo_flag is set).
store_iteration(ch, tnz, dch, big, small, delta, nb, flag) ==
    LET max_ts == 2 ^ nb
        mask   == [k \in DOMAIN dch |-> dch[k] = ch]
        sel    == MaskSelect(tnz, mask)
        t32    == [k \in DOMAIN sel |-> AsInt32(sel[k])]
        dif    == Diff(t32)
        t64    == CumSum([i \in DOMAIN dif |-> IF dif[i] < -delta THEN 1 ELSE 0])
    IN  [big_fifo_i   |-> IF flag THEN MaskSelect(big, mask) ELSE <<>>,
         small_fifo_i |-> IF flag THEN MaskSelect(small, mask) ELSE <<>>,
         times64      |-> IF Len(t32) >= 3
                          THEN [i \in DOMAIN t64 |-> t64[i] * max_ts + t32[i + 1]]
                          ELSE <<>>]

(***************************************************************************)
(* Inputs                                                                   *)
(***************************************************************************)
\* The uint32 word with detector field h (8 bits) and counter t (24 bits).
Word(h, t) == <<h * 256 + t \div 65536, t % 65536>>

\* Words of the explored buffers: channel 1 with two counter values, channel
\* 1 with both flag bits set, channel 2, and the detector fields 48 and 63.
WordVals ==
    {Word(0, 1), Word(0, 3), Word(192, 1), Word(1, 0), Word(48, 1), Word(63, 1)}

\* (det, timestamp) pairs of the arrays passed to process_timestamps directly.
PairVals == {<<0, 1>>, <<1, 0>>, <<1, 3>>, <<64, 1>>}

NBitsVals == {16, 24}

DeltaVals == {1, 2}

SeqsUpTo(S, n) == UNION {[1..m -> S] : m \in 0..n}

\* Fixed arrays: the unwrap example, the flag-alignment example and two
\* decreasing counter sequences on channel 1.
ExampleArrays ==
    {[timestamps |-> <<16777200, 16777210, 5, 20>>, det |-> <<1, 1, 1, 1>>],
     [timestamps |-> <<7, 8, 9>>, det |-> <<193, 65, 129>>],
     [timestamps |-> <<5, 3, 2, 0>>, det |-> <<1, 1, 1, 1>>],
     [timestamps |-> <<9, 6, 3, 0>>, det |-> <<1, 1, 1, 1>>]}

NoResult ==
    /\ zero_data = <<>>
    /\ det_nz = <<>>
    /\ timestamps_nz = <<>>
    /\ full_big_fifo = <<>>
    /\ full_small_fifo = <<>>
    /\ det_ch = <<>>
    /\ times32 = <<>>
    /\ timestamps_m = <<>>
    /\ full_big_fifo_m = <<>>
    /\ full_small_fifo_m = <<>>

\* A word buffer loaded from a file, before get_timestamps_detectors; both
\* load_manta_timestamps and load_ni_timestamps decode with nbits=24.
InitWords ==
    /\ data \in SeqsUpTo(WordVals, MaxLen)
    /\ nbits = 24
    /\ timestamps = <<>>
    /\ det = <<>>
    /\ pc = "start"

\* Arrays handed to process_timestamps by a caller.
InitArrays ==
    /\ data = <<>>
    /\ \/ \E p \in SeqsUpTo(PairVals, MaxLen) :
            /\ det = [k \in DOMAIN p |-> p[k][1]]
            /\ timestamps = [k \in DOMAIN p |-> p[k][2]]
            /\ nbits \in NBitsVals
       \/ \E e \in ExampleArrays :
            /\ det = e.det
            /\ timestamps = e.timestamps
            /\ nbits = 24
    /\ pc = "decoded"

\* process_store is not running and its file holds no group.
NoStore ==
    /\ store_CH = 0
    /\ timestamps_list = <<>>
    /\ big_fifo_full_list = <<>>
    /\ small_fifo_full_list = <<>>
    /\ flushed = TRUE

\* No worker is unwrapping.
NoWorkers ==
    /\ worker_ch = <<>>
    /\ merged = <<>>

\* The buffer is the whole file: no window was asked for.
NoWindow ==
    /\ file = data
    /\ i_start = 0
    /\ i_stop = <<>>

Init ==
    /\ InitWords \/ InitArrays
    /\ NoWindow
    /\ NoStore
    /\ NoWorkers
    /\ delta_rollover \in DeltaVals
    /\ fifo_flag \in BOOLEAN
    /\ debug \in BOOLEAN
    /\ NoResult

\* Words of the decoder's specification, as <<hi, lo>>: 0, 0xFFFFFFFF,
\* 0x00FFFFFF, 0x01000000, 0xFF000001, 0x80008000 and 0x3FFFFFFE.
DecodeWords ==
    {<<0, 0>>, <<65535, 65535>>, <<255, 65535>>, <<256, 0>>, <<65280, 1>>,
     <<32768, 32768>>, <<16383, 65534>>}

\* Bit widths of the decoder's specification.
DecodeNBits == {8, 16, 24}

\* A buffer of arbitrary words and a bit width, before
\* get_timestamps_detectors.
InitDecode ==
    /\ data \in SeqsUpTo(DecodeWords, MaxWords)
    /\ nbits \in DecodeNBits
    /\ timestamps = <<>>
    /\ det = <<>>
    /\ pc = "start"
    /\ NoWindow
    /\ NoStore
    /\ NoWorkers
    /\ delta_rollover = 1
    /\ fifo_flag \in BOOLEAN
    /\ debug \in BOOLEAN
    /\ NoResult

\* Words of the loader's specification: channel 1 with two counter values
\* and channel 2.
LoadWords == {Word(0, 1), Word(0, 3), Word(1, 0)}

\* Values of i_stop: None and 0..MaxIndex.
StopVals == {<<>>} \cup {<<n>> : n \in 0..MaxIndex}

\* load_manta_timestamps(fname, format='xa', i_start, i_stop, debug) is
\* called on a file; nothing is read yet.
InitLoad ==
    /\ file \in SeqsUpTo(LoadWords, MaxLen)
    /\ i_start \in 0..MaxIndex
    /\ i_stop \in StopVals
    /\ data = <<>>
    /\ timestamps = <<>>
    /\ det = <<>>
    /\ nbits = 24
    /\ delta_rollover = 1
    /\ fifo_flag = TRUE
    /\ debug \in BOOLEAN
    /\ pc = "load"
    /\ NoResult
    /\ NoStore
    /\ NoWorkers

\* Arrays a caller passes to process_timestamps twice.
InitCalls ==
    /\ data = <<>>
    /\ NoWindow
    /\ NoStore
    /\ NoWorkers
    /\ \/ \E p \in SeqsUpTo(PairVals, MaxStoreLen) :
            /\ det = [k \in DOMAIN p |-> p[k][1]]
            /\ timestamps = [k \in DOMAIN p |-> p[k][2]]
       \/ \E e \in ExampleArrays :
            /\ det = e.det
            /\ timestamps = e.timestamps
    /\ nbits \in NBitsVals
    /\ delta_rollover \in DeltaVals
    /\ fifo_flag \in BOOLEAN
    /\ debug \in BOOLEAN
    /\ pc = "decoded"
    /\ NoResult

\* (det, timestamp) pairs of the workers' specification: channel 1 with two
\* counter values and channel 2.
WorkerPairVals == {<<1, 3>>, <<1, 1>>, <<2, 0>>}

\* Arrays handed to the channel loop run by workers.
InitWorkers ==
    /\ data = <<>>
    /\ NoWindow
    /\ NoStore
    /\ NoWorkers
    /\ \E p \in SeqsUpTo(WorkerPairVals, MaxWorkerLen) :
           /\ det = [k \in DOMAIN p |-> p[k][1]]
           /\ timestamps = [k \in DOMAIN p |-> p[k][2]]
    /\ nbits = 24
    /\ delta_rollover = 1
    /\ fifo_flag = TRUE
    /\ debug = FALSE
    /\ pc = "decoded"
    /\ NoResult

\* Entries left in the output file by an earlier run.
StaleGroups == {<<>>, <<<<7, 7, 7>>>>}

\* process_store(timestamps, det, out_fname, delta_rollover, nbits,
\* fifo_flag, debug) is called; out_fname may exist already.
InitStore ==
    /\ data = <<>>
    /\ NoWindow
    /\ \/ \E p \in SeqsUpTo(PairVals, MaxStoreLen) :
            /\ det = [k \in DOMAIN p |-> p[k][1]]
            /\ timestamps = [k \in DOMAIN p |-> p[k][2]]
       \/ \E e \in ExampleArrays :
            /\ det = e.det
            /\ timestamps = e.timestamps
    /\ nbits \in NBitsVals
    /\ delta_rollover \in DeltaVals
    /\ fifo_flag \in BOOLEAN
    /\ debug \in BOOLEAN
    /\ pc = "store_start"
    /\ NoResult
    /\ store_CH = 0
    /\ timestamps_list \in StaleGroups
    /\ big_fifo_full_list = timestamps_list
    /\ small_fifo_full_list = timestamps_list
    /\ flushed = TRUE
    /\ NoWorkers

(***************************************************************************)
(* Actions                                                                  *)
(***************************************************************************)
\* data = load_xavier_manta_data(fname, i_start=i_start, i_stop=i_stop)
LoadXavierMantaData ==
    /\ pc = "load"
    /\ data' = load_xavier_manta_data(file, i_start, i_stop)
    /\ pc' = "start"
    /\ UNCHANGED <<file, i_start, i_stop, timestamps, det, nbits,
                   delta_rollover, fifo_flag, debug,
                   zero_data, det_nz, timestamps_nz, full_big_fifo,
                   full_small_fifo, det_ch, times32, timestamps_m,
                   full_big_fifo_m, full_small_fifo_m, store_CH,
                   timestamps_list,
                   big_fifo_full_list, small_fifo_full_list, flushed>>
    /\ UNCHANGED workerVars

\* timestamps, det = get_timestamps_detectors(data, nbits)
GetTimestampsDetectors ==
    /\ pc = "start"
    /\ LET r == get_timestamps_detectors(data, nbits)
       IN  /\ timestamps' = r.timestamps
           /\ det' = r.det
    /\ pc' = "decoded"
    /\ UNCHANGED <<file, i_start, i_stop, data, nbits, delta_rollover,
                   fifo_flag, debug, zero_data, det_nz, timestamps_nz, full_big_fifo,
                   full_small_fifo, det_ch, times32, timestamps_m,
                   full_big_fifo_m, full_small_fifo_m, store_CH,
                   timestamps_list,
                   big_fifo_full_list, small_fifo_full_list, flushed>>
    /\ UNCHANGED workerVars

\* Mutant of CallProcessTimestamps: the flag bits are masked off in the
\* caller's det array.
CallProcessTimestamps_MaskInPlace(from, returned, failed) ==
    /\ pc \in from
    /\ \E r \in {process_timestamps(timestamps, det, delta_rollover, nbits,
                                   fifo_flag, debug)} :
           /\ pc' = IF r.raised THEN failed ELSE returned
           /\ zero_data' = r.zero_data
           /\ det_nz' = r.det_nz
           /\ timestamps_nz' = r.timestamps_nz
           /\ full_big_fifo' = r.full_big_fifo
           /\ full_small_fifo' = r.full_small_fifo
           /\ det_ch' = r.det_ch
           /\ times32' = r.times32
           /\ timestamps_m' = r.timestamps_m
           /\ full_big_fifo_m' = r.full_big_fifo_m
           /\ full_small_fifo_m' = r.full_small_fifo_m
    /\ det' = IF fifo_flag THEN [k \in DOMAIN det |-> ChannelOf(det[k])] ELSE det
    /\ UNCHANGED <<file, i_start, i_stop, data, timestamps, nbits,
                   delta_rollover, fifo_flag, debug, store_CH,
                   timestamps_list, big_fifo_full_list, small_fifo_full_list,
                   flushed>>
    /\ UNCHANGED workerVars

\* A call process_timestamps(timestamps, det, delta_rollover, nbits,
\* fifo_flag, debug) made when pc is in `from`: the function works on its own
\* locals and the arrays of the caller are left as they are.
CallProcessTimestamps(from, returned, failed) ==
    /\ pc \in from
    /\ \E r \in {process_timestamps(timestamps, det, delta_rollover, nbits,
                                   fifo_flag, debug)} :
           /\ pc' = IF r.raised THEN failed ELSE returned
           /\ zero_data' = r.zero_data
           /\ det_nz' = r.det_nz
           /\ timestamps_nz' = r.timestamps_nz
           /\ full_big_fifo' = r.full_big_fifo
           /\ full_small_fifo' = r.full_small_fifo
           /\ det_ch' = r.det_ch
           /\ times32' = r.times32
           /\ timestamps_m' = r.timestamps_m
           /\ full_big_fifo_m' = r.full_big_fifo_m
           /\ full_small_fifo_m' = r.full_small_fifo_m
    /\ UNCHANGED <<file, i_start, i_stop, data, timestamps, det, nbits,
                   delta_rollover, fifo_flag, debug, store_CH,
                   timestamps_list, big_fifo_full_list, small_fifo_full_list,
                   flushed>>
    /\ UNCHANGED workerVars

\* process_timestamps(timestamps, det, delta_rollover, nbits, fifo_flag, debug)
ProcessTimestamps == CallProcessTimestamps({"decoded"}, "done", "raised")

\* The caller calls process_timestamps once more with the same arrays and
\* settings.
ProcessTimestampsAgain ==
    CallProcessTimestamps({"done", "raised"}, "done2", "raised2")

\* process_store up to the creation of the three groups: the filter, the
\* flags and the debug assertion, which fails before the file is opened.
StoreBegin ==
    /\ pc = "store_start"
    /\ \E r \in {store_prelude(timestamps, det, fifo_flag, debug)} :
           /\ zero_data' = r.zero_data
           /\ det_nz' = r.det_nz
           /\ timestamps_nz' = r.timestamps_nz
           /\ full_big_fifo' = r.full_big_fifo
           /\ full_small_fifo' = r.full_small_fifo
           /\ det_ch' = r.det_ch
           /\ IF r.raised
              THEN /\ pc' = "raised"
                   /\ UNCHANGED <<store_CH, timestamps_list, big_fifo_full_list,
                                  small_fifo_full_list, flushed>>
              ELSE /\ pc' = "store_loop"
                   /\ store_CH' = 1
                   /\ timestamps_list' = PyTablesListNew
                   /\ big_fifo_full_list' = PyTablesListNew
                   /\ small_fifo_full_list' = PyTablesListNew
                   /\ flushed' = FALSE
    /\ UNCHANGED <<file, i_start, i_stop, data, timestamps, det, nbits,
                   delta_rollover, fifo_flag, debug, times32, timestamps_m,
                   full_big_fifo_m, full_small_fifo_m>>
    /\ UNCHANGED workerVars

\* One iteration of `for CH in range(1, 49)` of process_store.
StoreChannel ==
    /\ pc = "store_loop"
    /\ store_CH \in StoreChannels
    /\ \E r \in {store_iteration(store_CH, timestamps_nz, det_ch, full_big_fifo,
                                  full_small_fifo, delta_rollover, nbits,
                                  fifo_flag)} :
           /\ big_fifo_full_list' =
                 IF fifo_flag
                 THEN PyTablesListAppend(big_fifo_full_list, r.big_fifo_i)
                 ELSE big_fifo_full_list
           /\ small_fifo_full_list' =
                 IF fifo_flag
                 THEN PyTablesListAppend(small_fifo_full_list, r.small_fifo_i)
                 ELSE small_fifo_full_list
           /\ timestamps_list' = PyTablesListAppend(timestamps_list, r.times64)
    /\ store_CH' = store_CH + 1
    /\ flushed' = FALSE
    /\ UNCHANGED <<file, i_start, i_stop, data, timestamps, det, nbits,
                   delta_rollover, fifo_flag, debug, pc, zero_data, det_nz,
                   timestamps_nz, full_big_fifo, full_small_fifo, det_ch,
                   times32, timestamps_m, full_big_fifo_m, full_small_fifo_m>>
    /\ UNCHANGED workerVars

\* Mutant of StoreFlush: the function returns without the flush.
StoreFlush_NoFlush ==
    /\ pc = "store_loop"
    /\ store_CH \notin StoreChannels
    /\ pc' = "stored"
    /\ UNCHANGED <<file, i_start, i_stop, data, timestamps, det, nbits,
                   delta_rollover, fifo_flag, debug, zero_data, det_nz,
                   timestamps_nz, full_big_fifo, full_small_fifo, det_ch,
                   times32, timestamps_m, full_big_fifo_m, full_small_fifo_m,
                   store_CH, timestamps_list, big_fifo_full_list,
                   small_fifo_full_list, flushed>>
    /\ UNCHANGED workerVars

\* timestamps_m.data_file.flush() and the return, after the loop.
StoreFlush ==
    /\ pc = "store_loop"
    /\ store_CH \notin StoreChannels
    /\ flushed' = TRUE
    /\ pc' = "stored"
    /\ UNCHANGED <<file, i_start, i_stop, data, timestamps, det, nbits,
                   delta_rollover, fifo_flag, debug, zero_data, det_nz,
                   timestamps_nz, full_big_fifo, full_small_fifo, det_ch,
                   times32, timestamps_m, full_big_fifo_m, full_small_fifo_m,
                   store_CH, timestamps_list, big_fifo_full_list,
                   small_fifo_full_list>>
    /\ UNCHANGED workerVars

Next == GetTimestampsDetectors \/ ProcessTimestamps

Spec == Init /\ [][Next]_vars

\* load_manta_timestamps: the windowed load, then the two decoding steps.
NextLoad == LoadXavierMantaData \/ GetTimestampsDetectors \/ ProcessTimestamps

SpecLoad == InitLoad /\ [][NextLoad]_vars

\* Two calls of process_timestamps in a row.
NextCalls == ProcessTimestamps \/ ProcessTimestampsAgain

SpecCalls == InitCalls /\ [][NextCalls]_vars

\* The statements before the channel loop; the buckets are then shared out:
\* worker w takes the channels w, w + NWorkers, ...
WorkersBegin ==
    /\ pc = "decoded"
    /\ \E r \in {store_prelude(timestamps, det, fifo_flag, debug)} :
           /\ pc' = IF r.raised THEN "raised" ELSE "workers"
           /\ zero_data' = r.zero_data
           /\ det_nz' = r.det_nz
           /\ timestamps_nz' = r.timestamps_nz
           /\ full_big_fifo' = r.full_big_fifo
           /\ full_small_fifo' = r.full_small_fifo
           /\ det_ch' = r.det_ch
    /\ worker_ch' = [w \in 1..NWorkers |-> w]
    /\ merged' = [c \in Channels |-> <<>>]
    /\ UNCHANGED <<file, i_start, i_stop, data, timestamps, det, nbits,
                   delta_rollover, fifo_flag, debug, times32, timestamps_m,
                   full_big_fifo_m, full_small_fifo_m, store_CH,
                   timestamps_list, big_fifo_full_list, small_fifo_full_list,
                   flushed>>

\* Worker w runs the loop body for its next channel and writes the result at
\* the index of the channel.
WorkerUnwrap(w) ==
    /\ pc = "workers"
    /\ worker_ch[w] \in Channels
    /\ merged' = [merged EXCEPT ![worker_ch[w]] =
                     UnwrapChannel(worker_ch[w], timestamps_nz, det_ch,
                                   delta_rollover, 2 ^ nbits)]
    /\ worker_ch' = [worker_ch EXCEPT ![w] = worker_ch[w] + NWorkers]
    /\ UNCHANGED <<file, i_start, i_stop, data, timestamps, det, nbits,
                   delta_rollover, fifo_flag, debug, pc, zero_data, det_nz,
                   timestamps_nz, full_big_fifo, full_small_fifo, det_ch,
                   times32, timestamps_m, full_big_fifo_m, full_small_fifo_m,
                   store_CH, timestamps_list, big_fifo_full_list,
                   small_fifo_full_list, flushed>>

NextWorkers == WorkersBegin \/ \E w \in 1..NWorkers : WorkerUnwrap(w)

SpecWorkers == InitWorkers /\ [][NextWorkers]_vars

\* process_store step by step.
NextStore == StoreBegin \/ StoreChannel \/ StoreFlush

SpecStore == InitStore /\ [][NextStore]_vars

\* The decoder on arbitrary words, followed by process_timestamps.
SpecDecode == InitDecode /\ [][Next]_vars

(***************************************************************************)
(* Properties                                                               *)
(***************************************************************************)
\* process_timestamps has returned its three lists.
Returned == pc = "done"

\* process_timestamps has ended, by a return or by the failed assertion.
Ended == pc \in {"done", "raised"}

\* The raw counter values handed to process_timestamps fit nbits bits.
RawInRange == \A k \in DOMAIN timestamps : timestamps[k] \in 0..(2 ^ nbits - 1)

\* Number of events of the channel loop's input whose channel id is c.
EventsOn(c) == Cardinality({k \in DOMAIN det_ch : det_ch[k] = c})

\* Number of True elements of a boolean array.
CountTrue(mask) == Cardinality({k \in DOMAIN mask : mask[k]})

RECURSIVE SumLen(_, _)
\* Total length of the first n arrays of a list.
SumLen(list, n) == IF n = 0 THEN 0 ELSE Len(list[n]) + SumLen(list, n - 1)

\* r[i] of the unwrapper (i counted from 0): the number of positions j <= i
\* with t32[j+1] - t32[j] < -delta (positions counted from 0).
RolloverCount(t32, i, delta) ==
    Cardinality({j \in 0..i : t32[j + 2] - t32[j + 1] < -delta})

C3_FlagAlignment ==
    (Ended /\ fifo_flag /\ det = <<193, 65, 129>>) =>
        /\ Returned
        /\ det_ch = <<1, 1, 1>>
        /\ full_big_fifo_m[1] = <<TRUE, FALSE, TRUE>>
        /\ full_small_fifo_m[1] = <<FALSE, TRUE, FALSE>>

\* C3 amended: with flag mode enabled, the detector codes [0b11000001,
\* 0b01000001, 0b10000001] give big_fifo_full = [True, False, True] and
\* small_fifo_full = [True, True, False] on channel 1 (bit 6 of 0b11000001 is
\* set), all three events having channel id 1.
C3_FlagAlignmentBit6 ==
    (Ended /\ fifo_flag /\ det = <<193, 65, 129>>) =>
        /\ Returned
        /\ det_ch = <<1, 1, 1>>
        /\ full_big_fifo_m[1] = <<TRUE, FALSE, TRUE>>
        /\ full_small_fifo_m[1] = <<TRUE, TRUE, FALSE>>
        /\ \A c \in Channels \ {1} :
              full_big_fifo_m[c] = <<>> /\ full_small_fifo_m[c] = <<>>

\* C3 witness: the example has been decoded in flag mode.
C3_Witness ==
    /\ Returned
    /\ fifo_flag
    /\ det = <<193, 65, 129>>
    /\ Len(full_big_fifo_m[1]) = 3
    /\ Len(full_small_fifo_m[1]) = 3

\* Number of events that reach the channel loop with an id outside 1..48.
OutOfRangeCount == Cardinality({k \in DOMAIN det_ch : det_ch[k] \notin Channels})

\* C4 as stated: the 48 pre-unwrap per-channel event counts plus the number
\* of sentinel-filtered events add up to the number of input words.
C4_PartitionComplete ==
    Returned =>
        SumLen(times32, NCH1 - 1) + CountTrue(zero_data) = Len(det)

\* C4 amended: the 48 pre-unwrap per-channel event counts, the number of
\* sentinel-filtered events and the number of events whose channel id is
\* outside 1..48 add up to the number of input words.
C4_PartitionWithExcluded ==
    Returned =>
        SumLen(times32, NCH1 - 1) + CountTrue(zero_data) + OutOfRangeCount
            = Len(det)

\* C4 witness: a returned decode with bucketed, filtered and excluded events.
C4_Witness ==
    /\ Returned
    /\ SumLen(times32, NCH1 - 1) > 0
    /\ CountTrue(zero_data) > 0
    /\ OutOfRangeCount > 0

\* C5 as stated: every channel's emitted sequence has length (events seen on
\* the channel) - 1.
C5_LengthIsCountMinusOne ==
    Returned =>
        \A c \in Channels : Len(timestamps_m[c]) = EventsOn(c) - 1

\* C5 amended: a channel with n >= 3 events emits n - 1 timestamps, and a
\* channel with fewer than 3 events emits none.
C5_LengthByCount ==
    Returned =>
        \A c \in Channels :
            Len(timestamps_m[c]) =
                IF EventsOn(c) >= 3 THEN EventsOn(c) - 1 ELSE 0

\* C5 witness: two channels with two events each and no output.
C5_Witness ==
    /\ Returned
    /\ \E c1, c2 \in Channels :
          /\ c1 # c2
          /\ EventsOn(c1) = 2 /\ timestamps_m[c1] = <<>>
          /\ EventsOn(c2) = 2 /\ timestamps_m[c2] = <<>>

\* The channel id of an event with detector code d: masked to 6 bits in flag
\* mode, unmasked otherwise.
ChannelId(d) == IF fifo_flag THEN d % 64 ELSE d

\* Channels with fewer than 3 events.
SparseChannels == {c \in Channels : EventsOn(c) < 3}

\* C6: a channel with 0, 1 or 2 raw events yields an empty timestamp sequence
\* and raises no error (the only failure is the debug assertion on an id of
\* 49 or more); the other channels' outputs are those of the same input
\* without the events of the sparse channels.
C6_MinimumData ==
    /\ pc = "raised" =>
          debug /\ \E k \in DOMAIN det_nz : ChannelId(det_nz[k]) >= NCH1
    /\ Returned =>
          \E sparse \in {SparseChannels} :
          \E keep \in {[k \in DOMAIN det |-> ChannelId(det[k]) \notin sparse]} :
          \E r \in {process_timestamps(MaskSelect(timestamps, keep),
                                       MaskSelect(det, keep), delta_rollover,
                                       nbits, fifo_flag, debug)} :
              /\ \A c \in sparse : timestamps_m[c] = <<>>
              /\ ~r.raised
              /\ \A c \in Channels \ sparse :
                    /\ timestamps_m[c] = r.timestamps_m[c]
                    /\ fifo_flag =>
                          /\ full_big_fifo_m[c] = r.full_big_fifo_m[c]
                          /\ full_small_fifo_m[c] = r.full_small_fifo_m[c]

\* C6 witness: a channel with one event and no output beside a channel with
\* three events that emits two timestamps.
C6_Witness ==
    /\ Returned
    /\ \E c \in Channels : EventsOn(c) = 1 /\ timestamps_m[c] = <<>>
    /\ \E c \in Channels : EventsOn(c) = 3 /\ Len(timestamps_m[c]) = 2

\* C7 as stated: with debug enabled, a decode that returns has no event
\* whose channel id lies outside 1..48, channel id 0 included.
C7_DebugRejectsOutside1To48 ==
    (Returned /\ debug) =>
        \A k \in DOMAIN det_nz : ChannelId(det_nz[k]) \in Channels

\* C7 amended: with debug enabled, a decode that returns has no event whose
\* channel id is 49 or more; an event with channel id 0 passes the check and
\* is in none of the 48 buckets.
C7_DebugRejects49AndAbove ==
    (Returned /\ debug) =>
        /\ \A k \in DOMAIN det_nz : ChannelId(det_nz[k]) \in 0..(NCH1 - 1)
        /\ SumLen(times32, NCH1 - 1) =
              Cardinality({k \in DOMAIN det_nz : ChannelId(det_nz[k]) # 0})

\* C7 witness: a debug-mode decode that returned with an event of channel 0.
C7_Witness ==
    /\ Returned
    /\ debug
    /\ \E k \in DOMAIN det_nz : ChannelId(det_nz[k]) = 0
    /\ SumLen(times32, NCH1 - 1) > 0

\* C8: with debug enabled, an event whose channel id is 49 or more (masked in
\* flag mode, unmasked otherwise) makes process_timestamps fail on the
\* assertion, and no output list is returned.
C8_DebugFormatViolation ==
    (Ended /\ debug /\ \E k \in DOMAIN det_nz : ChannelId(det_nz[k]) >= 49) =>
        /\ pc = "raised"
        /\ times32 = <<>>
        /\ timestamps_m = <<>>
        /\ full_big_fifo_m = <<>>
        /\ full_small_fifo_m = <<>>

\* C8 witness: a flag-mode decode of a word buffer failed on the assertion.
C8_Witness ==
    /\ pc = "raised"
    /\ debug
    /\ fifo_flag
    /\ \E k \in DOMAIN data : data[k][1] \div 256 + 1 = 49

\* C9: with debug disabled, events whose channel id is outside 1..48 raise no
\* error, are in none of the 48 sequences, and the outputs equal those of
\* the same input with these events removed.
C9_NonDebugExclusion ==
    (Ended /\ ~debug) =>
        /\ Returned
        /\ SumLen(times32, NCH1 - 1) =
              Cardinality({k \in DOMAIN det_nz : ChannelId(det_nz[k]) \in Channels})
        /\ fifo_flag =>
              /\ SumLen(full_big_fifo_m, NCH1 - 1) = SumLen(times32, NCH1 - 1)
              /\ SumLen(full_small_fifo_m, NCH1 - 1) = SumLen(times32, NCH1 - 1)
        /\ \E keep \in {[k \in DOMAIN det |->
                            det[k] = 0 \/ ChannelId(det[k]) \in Channels]} :
           \E r \in {process_timestamps(MaskSelect(timestamps, keep),
                                        MaskSelect(det, keep), delta_rollover,
                                        nbits, fifo_flag, debug)} :
                   /\ timestamps_m = r.timestamps_m
                   /\ full_big_fifo_m = r.full_big_fifo_m
                   /\ full_small_fifo_m = r.full_small_fifo_m

\* C9 witness: a non-debug decode that returned, with an excluded event and a
\* channel that emits timestamps.
C9_Witness ==
    /\ Returned
    /\ ~debug
    /\ OutOfRangeCount > 0
    /\ \E c \in Channels : Len(timestamps_m[c]) > 0

\* C10: with flag mode enabled, for every surviving event k, big_fifo_full[k]
\* is bit 7 and small_fifo_full[k] is bit 6 of detector_raw[k], the channel
\* id is detector_raw[k] & 0x3F, a value in 0..63, and for a decoded word
\* buffer detector_raw[k] = (word[k] >> nbits) + 1.
C10_FlagExtraction ==
    (Ended /\ fifo_flag) =>
        /\ Len(full_big_fifo) = Len(det_nz)
        /\ Len(full_small_fifo) = Len(det_nz)
        /\ Len(det_ch) = Len(det_nz)
        /\ \A k \in DOMAIN det_nz :
              /\ full_big_fifo[k] = (det_nz[k] % 256 >= 128)
              /\ full_small_fifo[k] = (det_nz[k] % 128 >= 64)
              /\ det_ch[k] = det_nz[k] % 64
              /\ det_ch[k] \in 0..63
        /\ data # <<>> =>
              /\ Len(det_nz) = Len(data)
              /\ \A k \in DOMAIN data :
                    det_nz[k] = data[k][1] \div (2 ^ (nbits - 16)) + 1

\* C10 witness: a flag-mode decode of a word buffer with an event that has
\* both flags and an event that has the small-FIFO flag alone.
C10_Witness ==
    /\ Returned
    /\ fifo_flag
    /\ data # <<>>
    /\ \E k \in DOMAIN det_nz : full_big_fifo[k] /\ full_small_fifo[k]
    /\ \E k \in DOMAIN det_nz : ~full_big_fifo[k] /\ full_small_fifo[k]

\* Position, in the arrays that reach the channel loop, of the k-th event of
\* channel c in source order.
KthEventOn(c, k) ==
    CHOOSE p \in DOMAIN det_ch :
        /\ det_ch[p] = c
        /\ Cardinality({q \in 1..p : det_ch[q] = c}) = k

\* C11: with flag mode enabled, for every channel c both flag sequences have
\* as many elements as channel c has events, element k being the flag of its
\* k-th event in source order; for a channel with n >= 3 events the emitted
\* times64[i] belongs to the event of flag index i+1.
C11_FlagsNotOffset ==
    (Returned /\ fifo_flag /\ RawInRange) =>
        \A c \in Channels :
            /\ Len(full_big_fifo_m[c]) = EventsOn(c)
            /\ Len(full_small_fifo_m[c]) = EventsOn(c)
            /\ \A k \in 1..EventsOn(c) :
                  /\ full_big_fifo_m[c][k] = (det_nz[KthEventOn(c, k)] % 256 >= 128)
                  /\ full_small_fifo_m[c][k] = (det_nz[KthEventOn(c, k)] % 128 >= 64)
            /\ EventsOn(c) >= 3 =>
                  /\ Len(timestamps_m[c]) = EventsOn(c) - 1
                  /\ \A i \in 1..(EventsOn(c) - 1) :
                        timestamps_m[c][i] % (2 ^ nbits) =
                            timestamps_nz[KthEventOn(c, i + 1)]

\* C11 witness: a flag-mode decode with a channel of at least 3 events whose
\* flags differ and whose timestamps are one fewer than its flags.
C11_Witness ==
    /\ Returned
    /\ fifo_flag
    /\ \E c \in Channels :
          /\ EventsOn(c) >= 3
          /\ Len(full_big_fifo_m[c]) = EventsOn(c)
          /\ Len(timestamps_m[c]) = Len(full_big_fifo_m[c]) - 1
          /\ full_big_fifo_m[c][1] # full_big_fifo_m[c][2]
          /\ timestamps_m[c][1] # timestamps_nz[KthEventOn(c, 1)]

\* The value of the uint32 word w modulo 2^n.
WordMod(w, n) ==
    IF n >= 16 THEN (w[1] % (2 ^ (n - 16))) * 65536 + w[2] ELSE w[2] % (2 ^ n)

\* The value of the uint32 word w divided by 2^n, n >= 1.
WordDiv(w, n) ==
    IF n >= 16 THEN w[1] \div (2 ^ (n - 16))
    ELSE w[1] * (2 ^ (16 - n)) + w[2] \div (2 ^ n)

\* get_timestamps_detectors has returned.
Decoded == pc \notin {"load", "start"}

RECURSIVE BitwiseOr(_, _)
\* Bitwise or of two non-negative integers.
BitwiseOr(a, b) ==
    IF a = 0 THEN b
    ELSE IF b = 0 THEN a
    ELSE (IF a % 2 = 1 \/ b % 2 = 1 THEN 1 ELSE 0)
         + 2 * BitwiseOr(a \div 2, b \div 2)

\* ((d - 1) << 24) | t as a uint32 word <<hi, lo>>.
ReEncode24(d, t) ==
    <<BitwiseOr(((d - 1) * 256) % 65536, t \div 65536), BitwiseOr(0, t % 65536)>>

KthNonZero(j) ==
    CHOOSE p \in DOMAIN det :
        /\ det[p] # 0
        /\ Cardinality({q \in 1..p : det[q] # 0}) = j

\* C15: for every channel, the events of its bucket, and so its emitted
\* timestamps, keep the relative order of their source words; no event is
\* reordered or duplicated.
C15_OrderPreserved ==
    (Returned /\ RawInRange) =>
        /\ Len(timestamps_nz) = Cardinality({p \in DOMAIN det : det[p] # 0})
        /\ \A j \in DOMAIN timestamps_nz :
              timestamps_nz[j] = timestamps[KthNonZero(j)]
        /\ \A c \in Channels :
              /\ Len(times32[c]) = EventsOn(c)
              /\ \A k \in 1..EventsOn(c) :
                    times32[c][k] = timestamps_nz[KthEventOn(c, k)]
              /\ \A i \in DOMAIN timestamps_m[c] :
                    timestamps_m[c][i] % (2 ^ nbits) =
                        timestamps_nz[KthEventOn(c, i + 1)]

\* C15 witness: a channel whose first two events carry different counter
\* values and have an event of another channel between them.
C15_Witness ==
    /\ Returned
    /\ \E c \in Channels :
          /\ EventsOn(c) >= 2
          /\ times32[c][1] # times32[c][2]
          /\ KthEventOn(c, 2) > KthEventOn(c, 1) + 1

\* The rollover count the output carries at step i (from 1) of channel c.
CountAt(c, i) == (timestamps_m[c][i] - times32[c][i + 1]) \div (2 ^ nbits)

\* The raw decrease at step i (from 1) of channel c.
DecreaseAt(c, i) == times32[c][i] - times32[c][i + 1]

AllZero(c) == \A k \in DOMAIN times32[c] : times32[c][k] = 0

\* The raw sequence of channel c decreases at every step.
Decreasing(c) == \A i \in 1..(Len(times32[c]) - 1) : DecreaseAt(c, i) > 0

C19_FixedCardinality ==
    (Returned /\ fifo_flag) =>
        /\ Len(timestamps_m) = NCH1 - 1
        /\ Len(full_big_fifo_m) = NCH1 - 1
        /\ Len(full_small_fifo_m) = NCH1 - 1
        /\ \A c \in 1..(NCH1 - 1) :
              /\ Len(full_big_fifo_m[c]) = EventsOn(c)
              /\ Len(full_small_fifo_m[c]) = EventsOn(c)
              /\ Len(timestamps_m[c]) =
                    IF EventsOn(c) >= 3 THEN EventsOn(c) - 1 ELSE 0
              /\ \A k \in 1..EventsOn(c) :
                    /\ full_big_fifo_m[c][k] = BigFifoBit(det_nz[KthEventOn(c, k)])
                    /\ full_small_fifo_m[c][k] = SmallFifoBit(det_nz[KthEventOn(c, k)])

\* C19 witness: the empty buffer decoded with flags gives 48 empty sequences
\* of each kind.
C19_Witness ==
    /\ Returned
    /\ fifo_flag
    /\ det = <<>>
    /\ Len(timestamps_m) = 48
    /\ Len(full_big_fifo_m) = 48
    /\ Len(full_small_fifo_m) = 48
    /\ \A c \in 1..48 : timestamps_m[c] = <<>> /\ full_big_fifo_m[c] = <<>>

\* load_xavier_manta_data has returned.
Loaded == pc # "load"

\* The words of the file with indexes lo..hi (from 0), in file order.
WordsBetween(lo, hi) ==
    SubSeq(file, lo + 1, IF hi + 1 > Len(file) THEN Len(file) ELSE hi + 1)

\* C20 as stated: the load returns exactly the words with indexes from i_start
\* up to i_stop (i_stop excluded or included) of the post-header word stream,
\* in on-disk order; with i_stop unset, every word from i_start to the end.
C20_WindowedLoad ==
    Loaded =>
        IF i_stop = <<>>
        THEN data = WordsBetween(i_start, Len(file) - 1)
        ELSE \/ data = WordsBetween(i_start, i_stop[1] - 1)
             \/ data = WordsBetween(i_start, i_stop[1])

\* C20 witness: i_start = 2 and i_stop = 2 on a file of four words return the
\* words 2 and 3, which were then decoded.
C20_Witness ==
    /\ pc = "done"
    /\ Len(file) = 4
    /\ i_start = 2
    /\ i_stop = <<2>>
    /\ data = <<file[3], file[4]>>

\* process_store has returned.
Stored == pc = "stored"

\* Group g2 is group g with one entry appended, its n-th.
Extended(g, g2, n) ==
    /\ Len(g) = n - 1
    /\ Len(g2) = n
    /\ SubSeq(g2, 1, n - 1) = g

\* The flag arrays of channel c, from the events of the channel in source
\* order: bit 7 and bit 6 of the detector value.
BigFlagsOn(c) ==
    [k \in 1..EventsOn(c) |-> (det_nz[KthEventOn(c, k)] \div 128) % 2 = 1]

SmallFlagsOn(c) ==
    [k \in 1..EventsOn(c) |-> (det_nz[KthEventOn(c, k)] \div 64) % 2 = 1]

\* The step appends the entry of channel store_CH to the timestamps group.
AppendsTimestamps ==
    /\ Extended(timestamps_list, timestamps_list', store_CH)
    /\ Len(timestamps_list'[store_CH]) =
          IF EventsOn(store_CH) >= 3 THEN EventsOn(store_CH) - 1 ELSE 0

\* The step appends the entry of channel store_CH to the two flag groups.
AppendsFlags ==
    /\ Extended(big_fifo_full_list, big_fifo_full_list', store_CH)
    /\ Extended(small_fifo_full_list, small_fifo_full_list', store_CH)
    /\ big_fifo_full_list'[store_CH] = BigFlagsOn(store_CH)
    /\ small_fifo_full_list'[store_CH] = SmallFlagsOn(store_CH)

\* The step that returns from process_store flushes and appends nothing.
FlushesLast ==
    (pc = "store_loop" /\ pc' = "stored") =>
        /\ flushed'
        /\ store_CH = NCH1
        /\ UNCHANGED <<timestamps_list, big_fifo_full_list, small_fifo_full_list>>

TimestampsEntryOf(c) ==
    /\ Len(timestamps_list[c]) = IF EventsOn(c) >= 3 THEN EventsOn(c) - 1 ELSE 0
    /\ \A i \in DOMAIN timestamps_list[c] :
          timestamps_list[c][i] % (2 ^ nbits) =
              timestamps_nz[KthEventOn(c, i + 1)] % (2 ^ nbits)

C29_StoreEquivalence ==
    pc \in {"stored", "raised"} =>
        LET r == process_timestamps(timestamps, det, delta_rollover, nbits,
                                    fifo_flag, debug)
        IN  /\ r.raised <=> pc = "raised"
            /\ Stored =>
                  /\ Len(timestamps_list) = Len(r.timestamps_m)
                  /\ \A c \in DOMAIN timestamps_list :
                        timestamps_list[c] = r.timestamps_m[c]
                  /\ Len(big_fifo_full_list) = Len(r.full_big_fifo_m)
                  /\ \A c \in DOMAIN big_fifo_full_list :
                        big_fifo_full_list[c] = r.full_big_fifo_m[c]
                  /\ Len(small_fifo_full_list) = Len(r.full_small_fifo_m)
                  /\ \A c \in DOMAIN small_fifo_full_list :
                        small_fifo_full_list[c] = r.full_small_fifo_m[c]

\* C29 witness: the store after the run on the rollover example holds the
\* unwrapped timestamps of channel 1.
C29_Witness ==
    /\ Stored
    /\ nbits = 24
    /\ timestamps = <<16777200, 16777210, 5, 20>>
    /\ timestamps_list[1] = <<16777210, 16777221, 16777236>>
    /\ timestamps_list[1] =
          process_timestamps(timestamps, det, delta_rollover, nbits,
                             fifo_flag, debug).timestamps_m[1]

\* Everything a call of process_timestamps returns or leaves in its locals.
CallResult ==
    <<timestamps_m, full_big_fifo_m, full_small_fifo_m, times32, det_ch,
      det_nz, timestamps_nz, full_big_fifo, full_small_fifo, zero_data>>

AllUnwrapped == pc = "workers" /\ \A w \in DOMAIN worker_ch : worker_ch[w] \notin Channels

\* The elements of array a at the events whose channel id is c.
OnlyChannel(a, c) ==
    MaskSelect(a, [k \in DOMAIN det |-> ChannelId(det[k]) = c])

\* C24: the output for channel c depends only on the events with channel id
\* c, so unwrapping the 48 buckets by independent workers in any interleaving
\* and merging by channel index gives the 48 sequences of the sequential loop
\* over channels 1..48.
C24_ChannelIndependence ==
    AllUnwrapped =>
        LET r == process_timestamps(timestamps, det, delta_rollover, nbits,
                                    fifo_flag, debug)
        IN  /\ Len(merged) = 48
            /\ \A c \in 1..48 :
                  /\ merged[c] = r.timestamps_m[c]
                  /\ merged[c] =
                        process_timestamps(OnlyChannel(timestamps, c),
                                           OnlyChannel(det, c), delta_rollover,
                                           nbits, fifo_flag, debug).timestamps_m[c]

\* C24 witness: channel 1 rolls over between events separated by an event of
\* channel 2, and the workers have finished.
C24_Witness ==
    /\ AllUnwrapped
    /\ det = <<1, 2, 1, 1>>
    /\ timestamps = <<3, 0, 3, 1>>
    /\ merged[1] = <<3, 16777217>>
    /\ merged[2] = <<>>

\* The change of the output of channel c from element i to element i + 1.
OutputStep(c, i) == timestamps_m[c][i + 1] - timestamps_m[c][i]

\* The raw step under the output step i of channel c is flagged as a
\* rollover.
FlaggedStep(c, i) == times32[c][i + 2] - times32[c][i + 1] < -delta_rollover

\* C25: for raw counter values in 0..2^nbits-1 and every channel,
\* consecutive emitted timestamps satisfy
\* times64[i+1] - times64[i] >= -delta_rollover, and at every step where a
\* rollover is flagged times64[i+1] > times64[i]; the output decreases only
\* at a non-flagged step.
C25_BoundedDecrease ==
    (Returned /\ RawInRange) =>
        \A c \in Channels :
            \A i \in 1..(Len(timestamps_m[c]) - 1) :
                /\ OutputStep(c, i) >= -delta_rollover
                /\ FlaggedStep(c, i) => OutputStep(c, i) > 0
                /\ OutputStep(c, i) < 0 => ~FlaggedStep(c, i)

\* C25 witness: a channel whose output decreases at one step and has a
\* flagged rollover at another.
C25_Witness ==
    /\ Returned
    /\ RawInRange
    /\ \E c \in Channels :
          \E i, j \in 1..(Len(timestamps_m[c]) - 1) :
              /\ OutputStep(c, i) < 0
              /\ FlaggedStep(c, j)
              /\ OutputStep(c, j) > 0

\* The true timelines of channel c: for each event a number of whole counter
\* periods added to its raw value.
Turns(c) == [DOMAIN times32[c] -> 0..MaxTurns]

\* The true timestamp of event k of channel c under the turns q.
TrueTime(c, q, k) == times32[c][k] + q[k] * (2 ^ nbits)

\* The timeline is non-decreasing with every gap below one period.
Monotone(c, q) ==
    \A k \in 1..(Len(times32[c]) - 1) :
        /\ TrueTime(c, q, k + 1) >= TrueTime(c, q, k)
        /\ TrueTime(c, q, k + 1) - TrueTime(c, q, k) < 2 ^ nbits

\* Step k of the timeline wraps the counter after a gap of at least
\* 2^nbits - delta_rollover.
LongGapWrap(c, q, k) ==
    /\ q[k + 1] > q[k]
    /\ TrueTime(c, q, k + 1) - TrueTime(c, q, k) >= 2 ^ nbits - delta_rollover

\* C26: if the true timestamps T[0..n-1] (n >= 3) of a channel are
\* non-decreasing, the raw values are T[k] mod 2^nbits and every gap is
\* < 2^nbits - delta_rollover, then times64[i] = T[i+1] - (T[0] div 2^nbits) *
\* 2^nbits for every i; each wraparound after a gap >= 2^nbits -
\* delta_rollover goes undetected and leaves the output one period short.
C26_UnwrapAgainstTimeline ==
    (Returned /\ RawInRange) =>
        \A c \in Channels :
            Len(times32[c]) >= 3 =>
                \A q \in Turns(c) :
                    Monotone(c, q) =>
                        \A i \in DOMAIN timestamps_m[c] :
                            timestamps_m[c][i] =
                                TrueTime(c, q, i + 1) - q[1] * (2 ^ nbits)
                                - (2 ^ nbits) *
                                  Cardinality({k \in 1..i : LongGapWrap(c, q, k)})

\* C26 witness: raw [16777200, 16777210, 5, 20] with nbits = 24 is the
\* timeline 16777200, 16777210, 2^24 + 5, 2^24 + 20, whose last three values
\* are emitted.
C26_Witness ==
    /\ Returned
    /\ nbits = 24
    /\ times32[1] = <<16777200, 16777210, 5, 20>>
    /\ Monotone(1, <<0, 0, 1, 1>>)
    /\ ~LongGapWrap(1, <<0, 0, 1, 1>>, 2)
    /\ timestamps_m[1] = <<16777210, 16777216 + 5, 16777216 + 20>>

\* C28: with nbits = 24 and raw values of 24 bits, for every channel with
\* n >= 3 events the raw values and their successive differences fit the
\* signed 32-bit intermediate type without wrapping, and every output
\* satisfies 0 <= times64[i] < (i + 2) * 2^nbits (i from 0).
C28_NoOverflow ==
    (Returned /\ RawInRange /\ nbits = 24) =>
        \A c \in Channels :
            Len(times32[c]) >= 3 =>
                /\ \A k \in DOMAIN times32[c] :
                      /\ times32[c][k] = timestamps_nz[KthEventOn(c, k)]
                      /\ times32[c][k] \in 0..(2 ^ 24 - 1)
                /\ \A k \in 1..(Len(times32[c]) - 1) :
                      /\ times32[c][k + 1] - times32[c][k] > -(2 ^ 24)
                      /\ times32[c][k + 1] - times32[c][k] < 2 ^ 24
                /\ \A i \in DOMAIN timestamps_m[c] :
                      /\ timestamps_m[c][i] >= 0
                      /\ timestamps_m[c][i] < (i + 1) * (2 ^ 24)

\* C28 witness: raw values next to 2^24 - 1 on a channel whose output passes
\* 2^24.
C28_Witness ==
    /\ Returned
    /\ nbits = 24
    /\ \E c \in Channels :
          /\ Len(times32[c]) >= 3
          /\ times32[c][1] > 16777000
          /\ \E i \in DOMAIN timestamps_m[c] : timestamps_m[c][i] > 2 ^ 24

\* The high byte h = word >> 24 of word k of the buffer.
HighByte(k) == WordDiv(data[k], 24)

\* h & 0x3F for word k of the buffer.
LowSix(k) == HighByte(k) % 64

\* Bit b of the number h.
BitOf(h, b) == (h \div (2 ^ b)) % 2 = 1

\* C27: with flag mode enabled and h = word >> 24, when (h & 0x3F) != 63 the
\* event gets big_fifo_full = bit 7 of h, small_fifo_full = bit 6 of h and
\* channel id (h & 0x3F) + 1; when (h & 0x3F) = 63 the +1 offset carries: the
\* event gets channel id 0 and flag bits that differ from bits 7 and 6 of h,
\* passes the debug check and is emitted in no channel.
C27_OffsetCarry ==
    (Ended /\ fifo_flag /\ nbits = 24) =>
        /\ Len(det_ch) = Len(data)
        /\ \A k \in DOMAIN data :
              IF LowSix(k) # 63
              THEN /\ full_big_fifo[k] = BitOf(HighByte(k), 7)
                   /\ full_small_fifo[k] = BitOf(HighByte(k), 6)
                   /\ det_ch[k] = LowSix(k) + 1
              ELSE /\ det_ch[k] = 0
                   /\ full_small_fifo[k] # BitOf(HighByte(k), 6)
                   /\ <<full_big_fifo[k], full_small_fifo[k]>> #
                          <<BitOf(HighByte(k), 7), BitOf(HighByte(k), 6)>>
        /\ (\A k \in DOMAIN data : LowSix(k) + 1 < NCH1 \/ LowSix(k) = 63)
              => Returned
        /\ Returned =>
              \A c \in Channels :
                  Len(times32[c]) =
                      Cardinality({k \in DOMAIN data :
                                      /\ LowSix(k) # 63
                                      /\ LowSix(k) + 1 = c})

\* C27 witness: the word 0x3FFFFFFE (h = 63) decoded with flags and debug:
\* channel id 0, small_fifo_full set, no channel holds the event.
C27_Witness ==
    /\ Returned
    /\ fifo_flag
    /\ debug
    /\ nbits = 24
    /\ data = <<<<16383, 65534>>>>
    /\ det = <<64>>
    /\ det_ch = <<0>>
    /\ full_small_fifo = <<TRUE>>
    /\ full_big_fifo = <<FALSE>>
    /\ \A c \in Channels : times32[c] = <<>>

====
